---- MODULE Spec2Model ----
(***************************************************************************)
(* TreasureBot: a chat bot answering "where do I find item X" from an      *)
(* in-memory table rebuilt from a spreadsheet.  Two variants share the     *)
(* builder: the Twitch bot (src/main.py) and the Discord bot (src/sc.py).  *)
(*                                                                         *)
(* Strings are sequences of one-character strings, so that strip, lower,   *)
(* split and the ", " concatenation of the code are computed and not       *)
(* assumed.  A dict is a sequence of [key, val] records in insertion       *)
(* order, as a Python dict is.                                             *)
(***************************************************************************)
EXTENDS Integers, Sequences, FiniteSets, TLC

\* ------------------------------------------------------------------------
\* Bounds of the model
\* ------------------------------------------------------------------------
MaxSheets == 2      \* worksheets in a workbook
MaxBuilds == 2      \* calls of _sync_update in one behaviour
MaxDirs   == 2      \* directories under VILLAGERS_DIR, the root included
MaxTime   == 3      \* seconds on the clock of the chat
MaxFinds  == 4      \* non-empty finds sent by the chatters

\* ------------------------------------------------------------------------
\* Strings
\* ------------------------------------------------------------------------
IsSpace(c) == c \in {" ", "\n", "\r", "\t"}

LowerChar(c) ==
  CASE c = "A" -> "a" [] c = "B" -> "b" [] c = "C" -> "c"
    [] c = "H" -> "h" [] c = "I" -> "i" [] c = "N" -> "n"
    [] OTHER -> c

lower(s) == [i \in 1..Len(s) |-> LowerChar(s[i])]

RECURSIVE lstrip(_)
lstrip(s) == IF s # <<>> /\ IsSpace(Head(s)) THEN lstrip(Tail(s)) ELSE s

RECURSIVE rstrip(_)
rstrip(s) ==
  IF s # <<>> /\ IsSpace(s[Len(s)]) THEN rstrip(SubSeq(s, 1, Len(s) - 1)) ELSE s

strip(s) == rstrip(lstrip(s))

\* index of the first occurrence of sep in s, 0 when there is none
IndexOf(s, sep) ==
  LET hits == { i \in 1..(Len(s) - Len(sep) + 1) :
                  SubSeq(s, i, i + Len(sep) - 1) = sep }
  IN IF hits = {} THEN 0 ELSE CHOOSE i \in hits : \A j \in hits : i <= j

\* str.split(sep): the pieces between the occurrences of sep, left to right
RECURSIVE split(_, _)
split(s, sep) ==
  LET p == IndexOf(s, sep)
  IN IF p = 0 THEN <<s>>
     ELSE <<SubSeq(s, 1, p - 1)>> \o split(SubSeq(s, p + Len(sep), Len(s)), sep)

CommaSpace == <<",", " ">>

Range(f) == { f[i] : i \in DOMAIN f }

\* ------------------------------------------------------------------------
\* Dicts in insertion order
\* ------------------------------------------------------------------------
EmptyDict == <<>>

Keys(d) == [i \in 1..Len(d) |-> d[i].key]

KeySet(d) == { d[i].key : i \in 1..Len(d) }

HasKey(d, k) == k \in KeySet(d)

Get(d, k) == d[CHOOSE i \in 1..Len(d) : d[i].key = k].val

\* d.get(k, "")
GetOr(d, k) == IF HasKey(d, k) THEN Get(d, k) ELSE <<>>

\* d[k] = v : in place for a key that is present, appended for a new one
Put(d, k, v) ==
  IF HasKey(d, k)
  THEN [i \in 1..Len(d) |-> IF d[i].key = k THEN [key |-> k, val |-> v] ELSE d[i]]
  ELSE Append(d, [key |-> k, val |-> v])

\* ------------------------------------------------------------------------
\* The merge of one cell into the table under construction
\* (the body of the two nested loops of _sync_update)
\* ------------------------------------------------------------------------
AddLocation(d, key, location_name) ==
  IF HasKey(d, key)
  THEN LET current_locations == split(Get(d, key), CommaSpace)
       IN IF location_name \notin Range(current_locations)
          THEN Put(d, key, Get(d, key) \o CommaSpace \o location_name)
          ELSE d
  ELSE Put(d, key, location_name)

AddCell(temp_cache, cell, location_name) ==
  LET item_name == strip(cell)
  IN IF item_name # <<>>
     THEN AddLocation(temp_cache, lower(item_name), location_name)
     ELSE temp_cache

RECURSIVE AddRow(_, _, _)
AddRow(temp_cache, row, location_name) ==
  IF row = <<>> THEN temp_cache
  ELSE AddRow(AddCell(temp_cache, Head(row), location_name), Tail(row), location_name)

RECURSIVE AddRows(_, _, _)
AddRows(temp_cache, rows, location_name) ==
  IF rows = <<>> THEN temp_cache
  ELSE AddRows(AddRow(temp_cache, Head(rows), location_name), Tail(rows), location_name)

\* a scan that takes the first row as well
ScanSheetWithHeader(temp_cache, title, rows) == AddRows(temp_cache, rows, title)

\* one worksheet whose rows were read: the first row is skipped
ScanSheet(temp_cache, title, rows) ==
  IF rows = <<>> THEN temp_cache ELSE AddRows(temp_cache, Tail(rows), title)

\* ------------------------------------------------------------------------
\* The spreadsheet: an ordered list of worksheets, each a title and its rows
\* ------------------------------------------------------------------------
ExcludedTitle == <<"A", "C", "N", "H", "_", "I", "t", "e", "m", "s">>

Titles == { <<"A">>, <<"B">>, <<"A", ",", " ", "B">>, ExcludedTitle }

Header == << <<"b">> >>

MixedRows == << << <<"A">>, <<" ", "a", " ">>, <<" ">>, <<>> >>, << <<"b">> >> >>

SheetRows == { <<>>, <<Header>>, <<Header>> \o MixedRows }

Sheets == [title : Titles, rows : SheetRows]

\* worksheet titles are unique within a workbook
Workbooks ==
  UNION { { w \in [1..n -> Sheets] :
              \A i, j \in 1..n : w[i].title = w[j].title => i = j } :
          n \in 0..MaxSheets }

TitlesOf(wb) == [i \in 1..Len(wb) |-> wb[i].title]

HasSheet(wb, title) == \E i \in 1..Len(wb) : wb[i].title = title

RowsOf(wb, title) == wb[CHOOSE i \in 1..Len(wb) : wb[i].title = title].rows

\* the workbooks of the specification in which builds, commands and edits
\* interleave: at most one worksheet
LiveWorkbooks ==
  { w \in Workbooks :
      /\ Len(w) <= 1
      /\ \A i \in 1..Len(w) :
            /\ w[i].title \in {<<"A">>, ExcludedTitle}
            /\ w[i].rows = <<Header>> \o MixedRows }

\* one edit by the owners of the workbook: the rows of one worksheet are
\* replaced, the last worksheet is deleted, or a worksheet is added
EditsOf(wb) ==
  { w \in LiveWorkbooks :
      /\ w # wb
      /\ \/ /\ Len(w) = Len(wb)
            /\ TitlesOf(w) = TitlesOf(wb)
            /\ Cardinality({ i \in 1..Len(w) : w[i] # wb[i] }) = 1
         \/ /\ Len(w) = Len(wb) - 1
            /\ w = SubSeq(wb, 1, Len(w))
         \/ /\ Len(w) = Len(wb) + 1
            /\ wb = SubSeq(w, 1, Len(wb)) }

\* ------------------------------------------------------------------------
\* The villager files: os.walk(VILLAGERS_DIR) as a list of directories, the
\* root first.  The base name of the root is empty when VILLAGERS_DIR ends
\* with a separator.
\* ------------------------------------------------------------------------
DirNames == { <<>>, <<"A">>, <<"B">> }

FileTexts == { <<>>, <<"a">>, <<"a", ",", "\n", " ", "C", "\n">> }

Dirs ==
  { d \in [name : DirNames, has_file : BOOLEAN, readable : BOOLEAN, content : FileTexts] :
      ~d.has_file => (d.readable /\ d.content = <<>>) }

NoTree == [exists |-> FALSE, walk |-> <<>>]

FileTrees ==
  {NoTree} \cup
  UNION { { [exists |-> TRUE, walk |-> w] :
              w \in { x \in [1..n -> Dirs] : \A i \in 2..n : x[i].name # <<>> } } :
          n \in 1..MaxDirs }

LiveTrees ==
  { NoTree,
    [exists |-> TRUE,
     walk |-> <<[name |-> <<"A">>, has_file |-> TRUE, readable |-> TRUE,
                 content |-> <<"a">>]>>] }

\* ------------------------------------------------------------------------
\* State
\* ------------------------------------------------------------------------
VARIABLES
  variant,      \* "twitch" (main.py) or "discord" (sc.py)
  cache,        \* self.cache
  cache_id,     \* identity of the dict object self.cache refers to
  last_update,  \* self.last_update, None_ before the first assignment
  gc,           \* self.gc is set
  now,          \* the wall clock, in seconds
  workbook,     \* the spreadsheet as it is now
  vfs,          \* the directory tree under VILLAGERS_DIR as it is now
  build,        \* per trigger: the call of _sync_update it awaits
  nbuilds,      \* calls of _sync_update started so far
  nreturned,    \* calls of _sync_update that have returned
  installed,    \* history: one record per execution of self.cache = temp_cache
  stamps,       \* history: stamps[t] is the build that set last_update to t
  ready,        \* position of the event_ready handler (twitch)
  refresh_task, \* self._refresh_task and the position of its coroutine (twitch)
  background,   \* position of the background_cache_refresh loop (discord)
  manual,       \* position of the refresh command handler (discord)
  stath,        \* the status command handler and its last answer
  findh,        \* the find command handler and its last answer
  answered,     \* history: some find or status was answered from data
  cooldowns,    \* the cooldown entry of the user who sends the finds
  refresher,    \* the user whose refresh command awaits its build (discord)
  denied,       \* the user whose refresh command was refused, until logged
  cancelled,    \* history: the task in self._refresh_task was cancelled
  reconnect,    \* a ready event handled while the first handler still awaits
  created,      \* history: calls of asyncio.create_task(self.auto_refresh_cache())
  ended,        \* history: auto_refresh_cache tasks that have returned
  finds         \* history: the non-empty finds of the chatters (twitch)

taskv  == <<reconnect, created, ended, finds>>
botv   == <<variant, cooldowns, refresher, denied, cancelled, taskv>>
envv   == <<workbook, vfs>>
cachev == <<cache, cache_id, installed>>
timev  == <<last_update, now, stamps>>
buildv == <<build, nbuilds, nreturned>>
corov  == <<ready, refresh_task, background, manual>>
handv  == <<stath, findh, answered>>

vars == <<botv, envv, cachev, timev, gc, buildv, corov, handv>>

None_ == 0

Triggers == {"ready", "periodic", "manual", "reconnect"}

NoBuild ==
  [pc |-> "idle", id |-> 0, sheets |-> <<>>, idx |-> 0,
   temp_cache |-> EmptyDict, reads |-> <<>>]

\* the call of trigger p has returned
Returned(b) == [NoBuild EXCEPT !.pc = "done", !.id = b.id]

\* the event loop runs one handler at a time: a handler that has begun is not
\* interleaved with another coroutine before it awaits or returns (threads
\* of the executor are)
LoopFree == stath.pc = "idle" /\ findh.pc = "idle"

\* ------------------------------------------------------------------------
\* _sync_update, one action per statement that touches shared or external
\* state.  It runs on a worker thread of the default executor.
\* ------------------------------------------------------------------------
\* loop.run_in_executor(None, self._sync_update)
Submit(p) ==
  /\ build[p].pc = "idle"
  /\ nbuilds < MaxBuilds
  /\ nbuilds' = nbuilds + 1
  /\ nreturned' = nreturned
  /\ build' = [build EXCEPT ![p] = [NoBuild EXCEPT !.pc = "gc", !.id = nbuilds + 1]]

\* if not self.gc: try to create the client, return when that raises
sync_update_gc(p) ==
  /\ build[p].pc = "gc"
  /\ \/ /\ gc
        /\ UNCHANGED <<gc, nreturned>>
        /\ build' = [build EXCEPT ![p].pc = "open"]
     \/ /\ ~gc
        /\ gc' = TRUE
        /\ nreturned' = nreturned
        /\ build' = [build EXCEPT ![p].pc = "open"]
     \/ /\ ~gc
        /\ gc' = gc
        /\ nreturned' = nreturned + 1
        /\ build' = [build EXCEPT ![p] = Returned(build[p])]
  /\ nbuilds' = nbuilds
  /\ UNCHANGED <<botv, envv, cachev, timev, corov, handv>>

\* a build that goes on from the installed table instead of a new one
StaleTable == cache

\* temp_cache = {} : every build starts from a new, empty table
FreshTable == EmptyDict

AfterSheet(b) ==
  IF b.idx > Len(b.sheets) THEN [b EXCEPT !.pc = "install"] ELSE b

\* wb = self.gc.open(WORKBOOK_NAME); worksheets = wb.worksheets()
sync_update_open(p) ==
  /\ build[p].pc = "open"
  /\ build' = [build EXCEPT ![p] =
                 AfterSheet([build[p] EXCEPT !.pc = "loop",
                                             !.sheets = TitlesOf(workbook),
                                             !.idx = 1,
                                             !.temp_cache = FreshTable])]
  /\ UNCHANGED <<nbuilds, nreturned>>
  /\ UNCHANGED <<botv, envv, cachev, timev, gc, corov, handv>>

\* a failed open that installs an empty table before the call returns
sync_update_open_clears(p) ==
  /\ build[p].pc = "open"
  /\ build' = [build EXCEPT ![p] = Returned(build[p])]
  /\ nreturned' = nreturned + 1
  /\ nbuilds' = nbuilds
  /\ cache' = EmptyDict
  /\ UNCHANGED <<cache_id, installed>>
  /\ UNCHANGED <<botv, envv, timev, gc, corov, handv>>

\* opening the workbook or listing its worksheets raises: the outer handler
\* logs and the call returns
sync_update_open_fails(p) ==
  /\ build[p].pc = "open"
  /\ build' = [build EXCEPT ![p] = Returned(build[p])]
  /\ nreturned' = nreturned + 1
  /\ nbuilds' = nbuilds
  /\ UNCHANGED <<botv, envv, cachev, timev, gc, corov, handv>>

\* if sheet.title == "ACNH_Items": continue
sync_update_skip(p) ==
  /\ build[p].pc = "loop"
  /\ build[p].sheets[build[p].idx] = ExcludedTitle
  /\ build' = [build EXCEPT ![p] = AfterSheet([build[p] EXCEPT !.idx = @ + 1])]
  /\ UNCHANGED <<nbuilds, nreturned>>
  /\ UNCHANGED <<botv, envv, cachev, timev, gc, corov, handv>>

\* rows = sheet.get_all_values() returns, and the rows are merged
sync_update_sheet(p) ==
  /\ build[p].pc = "loop"
  /\ LET title == build[p].sheets[build[p].idx]
     IN /\ title # ExcludedTitle
        /\ HasSheet(workbook, title)
        /\ LET rows == RowsOf(workbook, title)
           IN build' = [build EXCEPT ![p] =
                AfterSheet([build[p] EXCEPT
                  !.idx = @ + 1,
                  !.temp_cache = ScanSheet(@, title, rows),
                  !.reads = Append(@, [title |-> title, ok |-> TRUE, rows |-> rows])])]
  /\ UNCHANGED <<nbuilds, nreturned>>
  /\ UNCHANGED <<botv, envv, cachev, timev, gc, corov, handv>>

\* a failed read that ends the loop over the worksheets
sync_update_sheet_aborts(p) ==
  /\ build[p].pc = "loop"
  /\ LET title == build[p].sheets[build[p].idx]
     IN /\ title # ExcludedTitle
        /\ build' = [build EXCEPT ![p] =
             [build[p] EXCEPT
               !.pc = "install",
               !.reads = Append(@, [title |-> title, ok |-> FALSE, rows |-> <<>>])]]
  /\ UNCHANGED <<nbuilds, nreturned>>
  /\ UNCHANGED <<botv, envv, cachev, timev, gc, corov, handv>>

\* sheet.get_all_values() raises: the inner handler logs, the loop goes on
sync_update_sheet_fails(p) ==
  /\ build[p].pc = "loop"
  /\ LET title == build[p].sheets[build[p].idx]
     IN /\ title # ExcludedTitle
        /\ build' = [build EXCEPT ![p] =
             AfterSheet([build[p] EXCEPT
               !.idx = @ + 1,
               !.reads = Append(@, [title |-> title, ok |-> FALSE, rows |-> <<>>])])]
  /\ UNCHANGED <<nbuilds, nreturned>>
  /\ UNCHANGED <<botv, envv, cachev, timev, gc, corov, handv>>

\* an outer handler that installs what the loop had merged so far
sync_update_abandoned_installs(p) ==
  /\ build[p].pc = "loop"
  /\ cache' = build[p].temp_cache
  /\ cache_id' = build[p].id
  /\ installed' = Append(installed,
                    [id |-> build[p].id, table |-> build[p].temp_cache,
                     reads |-> build[p].reads])
  /\ build' = [build EXCEPT ![p] = Returned(build[p])]
  /\ nreturned' = nreturned + 1
  /\ nbuilds' = nbuilds
  /\ UNCHANGED <<botv, envv, timev, gc, corov, handv>>

\* an exception raised between two worksheets, outside the inner try (or in
\* the inner handler itself): the outer handler logs "Workbook fetch failed"
\* and the call returns, temp_cache is dropped
sync_update_abandoned(p) ==
  /\ build[p].pc = "loop"
  /\ build' = [build EXCEPT ![p] = Returned(build[p])]
  /\ nreturned' = nreturned + 1
  /\ nbuilds' = nbuilds
  /\ UNCHANGED <<botv, envv, cachev, timev, gc, corov, handv>>

\* self.cache = temp_cache
sync_update_install(p) ==
  /\ build[p].pc = "install"
  /\ cache' = build[p].temp_cache
  /\ cache_id' = build[p].id
  /\ installed' = Append(installed,
                    [id |-> build[p].id, table |-> build[p].temp_cache,
                     reads |-> build[p].reads])
  /\ build' = [build EXCEPT ![p].pc = "stamp"]
  /\ UNCHANGED <<nbuilds, nreturned>>
  /\ UNCHANGED <<botv, envv, timev, gc, corov, handv>>

\* self.last_update = datetime.now()
sync_update_stamp(p) ==
  /\ build[p].pc = "stamp"
  /\ now' = now + 1
  /\ last_update' = now + 1
  /\ stamps' = Append(stamps, build[p].id)
  /\ build' = [build EXCEPT ![p] = Returned(build[p])]
  /\ nreturned' = nreturned + 1
  /\ nbuilds' = nbuilds
  /\ UNCHANGED <<botv, envv, cachev, gc, corov, handv>>

sync_update(p) ==
  \/ sync_update_gc(p)
  \/ sync_update_open(p)
  \/ sync_update_open_fails(p)
  \/ sync_update_skip(p)
  \/ sync_update_sheet(p)
  \/ sync_update_sheet_fails(p)
  \/ sync_update_install(p)
  \/ sync_update_stamp(p)

\* ------------------------------------------------------------------------
\* The owners of the workbook edit it
\* ------------------------------------------------------------------------
edit_workbook ==
  /\ workbook' \in EditsOf(workbook)
  /\ vfs' = vfs
  /\ UNCHANGED <<botv, cachev, timev, gc, buildv, corov, handv>>

\* ------------------------------------------------------------------------
\* Twitch: event_ready and the periodic task auto_refresh_cache
\* ------------------------------------------------------------------------
\* await self.update_cache(): the build is handed to the executor
event_ready ==
  /\ variant = "twitch"
  /\ LoopFree
  /\ ready = "idle"
  /\ Submit("ready")
  /\ ready' = "await"
  /\ UNCHANGED <<refresh_task, background, manual>>
  /\ UNCHANGED <<botv, envv, cachev, timev, gc, handv>>

\* a handler that starts a task at every ready event
AlwaysNeedsTask == TRUE

\* self._refresh_task is None or self._refresh_task.done()
NeedsTask == refresh_task \in {"none", "finished"}

\* if ...: self._refresh_task = asyncio.create_task(self.auto_refresh_cache())
\* (no await between the test and the assignment)
CreateRefreshTask ==
  /\ refresh_task' = IF NeedsTask THEN "sleeping" ELSE refresh_task
  /\ cancelled' = IF NeedsTask THEN FALSE ELSE cancelled
  /\ created' = IF NeedsTask THEN created + 1 ELSE created
  /\ ended' = ended

\* the build has returned: create the periodic task when there is none
event_ready_resume ==
  /\ variant = "twitch"
  /\ LoopFree
  /\ ready = "await"
  /\ build["ready"].pc = "done"
  /\ build' = [build EXCEPT !["ready"] = NoBuild]
  /\ ready' = "idle"
  /\ CreateRefreshTask
  /\ UNCHANGED <<variant, cooldowns, refresher, denied, reconnect, finds>>
  /\ UNCHANGED <<nbuilds, nreturned, background, manual>>
  /\ UNCHANGED <<envv, cachev, timev, gc, handv>>

\* the ready event fires again (a reconnect) while the handler of the
\* previous one still awaits its build: a second handler runs
event_ready_reconnect ==
  /\ variant = "twitch"
  /\ LoopFree
  /\ ready = "await"
  /\ reconnect = "idle"
  /\ Submit("reconnect")
  /\ reconnect' = "await"
  /\ UNCHANGED <<variant, cooldowns, refresher, denied, cancelled, created, ended, finds>>
  /\ UNCHANGED <<envv, cachev, timev, gc, corov, handv>>

\* the build of the second handler has returned
event_ready_reconnect_resume ==
  /\ variant = "twitch"
  /\ LoopFree
  /\ reconnect = "await"
  /\ build["reconnect"].pc = "done"
  /\ build' = [build EXCEPT !["reconnect"] = NoBuild]
  /\ reconnect' = "idle"
  /\ CreateRefreshTask
  /\ UNCHANGED <<variant, cooldowns, refresher, denied, finds>>
  /\ UNCHANGED <<nbuilds, nreturned, ready, background, manual>>
  /\ UNCHANGED <<envv, cachev, timev, gc, handv>>

\* asyncio.sleep(3600 * CACHE_REFRESH_HOURS) is over: await self.update_cache()
auto_refresh_cache ==
  /\ variant = "twitch"
  /\ LoopFree
  /\ refresh_task = "sleeping"
  /\ Submit("periodic")
  /\ refresh_task' = "await"
  /\ UNCHANGED <<ready, background, manual>>
  /\ UNCHANGED <<botv, envv, cachev, timev, gc, handv>>

\* update_cache returns (it has logged whatever happened): sleep again
auto_refresh_cache_resume ==
  /\ variant = "twitch"
  /\ LoopFree
  /\ refresh_task = "await"
  /\ build["periodic"].pc = "done"
  /\ build' = [build EXCEPT !["periodic"] = NoBuild]
  /\ refresh_task' = "sleeping"
  /\ UNCHANGED <<nbuilds, nreturned, ready, background, manual>>
  /\ UNCHANGED <<botv, envv, cachev, timev, gc, handv>>

\* loop.run_in_executor itself raises (the executor takes no more work):
\* update_cache is in its "except Exception" handler
update_cache_raises ==
  /\ variant = "twitch"
  /\ LoopFree
  /\ refresh_task = "sleeping"
  /\ refresh_task' = "caught"
  /\ UNCHANGED <<ready, background, manual>>
  /\ UNCHANGED <<botv, envv, cachev, timev, gc, buildv, handv>>

\* an exception of the executor call that leaves the task
update_cache_escapes ==
  /\ variant = "twitch"
  /\ refresh_task = "caught"
  /\ refresh_task' = "finished"
  /\ UNCHANGED <<ready, background, manual>>
  /\ UNCHANGED <<botv, envv, cachev, timev, gc, buildv, handv>>

\* the handler has logged "Sheet Update Failed", update_cache returns and
\* the loop of the task sleeps again
update_cache_caught ==
  /\ variant = "twitch"
  /\ refresh_task = "caught"
  /\ refresh_task' = "sleeping"
  /\ UNCHANGED <<ready, background, manual>>
  /\ UNCHANGED <<botv, envv, cachev, timev, gc, buildv, handv>>

\* update_cache catching the cancellation that reaches it while it awaits
\* the executor, as its "except Exception" did when CancelledError was an
\* Exception: it returns and the loop of the task goes on
AfterCancelCaught(position) == IF position = "await" THEN "sleeping" ELSE "finished"

\* the CancelledError raised at the await of the task passes update_cache
\* (it is no Exception) and is caught by auto_refresh_cache, which logs and
\* returns: the task is done, without an exception
AfterCancel(position) == "finished"

\* the task is cancelled (the bot shuts down) while it sleeps or while it
\* awaits a build; the thread of that build runs on
cancel_refresh_task ==
  /\ variant = "twitch"
  /\ LoopFree
  /\ refresh_task \in {"sleeping", "await"}
  /\ refresh_task' = AfterCancel(refresh_task)
  /\ cancelled' = TRUE
  /\ ended' = ended + 1
  /\ UNCHANGED <<variant, cooldowns, refresher, denied, reconnect, created, finds>>
  /\ UNCHANGED <<ready, background, manual>>
  /\ UNCHANGED <<envv, cachev, timev, gc, buildv, handv>>

\* the build of a cancelled task has returned: nobody awaits its future
executor_discard ==
  /\ variant = "twitch"
  /\ refresh_task # "await"
  /\ build["periodic"].pc = "done"
  /\ build' = [build EXCEPT !["periodic"] = NoBuild]
  /\ UNCHANGED <<nbuilds, nreturned>>
  /\ UNCHANGED <<botv, envv, cachev, timev, gc, corov, handv>>

\* ------------------------------------------------------------------------
\* Discord: setup_hook, the tasks.loop background_cache_refresh, refresh
\* ------------------------------------------------------------------------
\* called once at login: the client is created (or not), the loop is started
setup_hook ==
  /\ variant = "discord"
  /\ background = "unstarted"
  /\ background' = "waiting"
  /\ gc' \in BOOLEAN
  /\ UNCHANGED <<ready, refresh_task, manual>>
  /\ UNCHANGED <<botv, envv, cachev, timev, buildv, handv>>

\* the bot is ready, or the interval has passed: one iteration of the loop
background_cache_refresh ==
  /\ variant = "discord"
  /\ LoopFree
  /\ background = "waiting"
  /\ Submit("periodic")
  /\ background' = "await"
  /\ UNCHANGED <<ready, refresh_task, manual>>
  /\ UNCHANGED <<botv, envv, cachev, timev, gc, handv>>

background_cache_refresh_resume ==
  /\ variant = "discord"
  /\ LoopFree
  /\ background = "await"
  /\ build["periodic"].pc = "done"
  /\ build' = [build EXCEPT !["periodic"] = NoBuild]
  /\ background' = "waiting"
  /\ UNCHANGED <<nbuilds, nreturned, ready, refresh_task, manual>>
  /\ UNCHANGED <<botv, envv, cachev, timev, gc, handv>>

\* self.loop.run_in_executor raises inside an iteration of the loop
background_cache_refresh_raises ==
  /\ variant = "discord"
  /\ LoopFree
  /\ background = "waiting"
  /\ background' = "caught"
  /\ UNCHANGED <<ready, refresh_task, manual>>
  /\ UNCHANGED <<botv, envv, cachev, timev, gc, buildv, handv>>

\* the handler has logged it, the iteration returns and the loop waits for
\* the next interval
background_cache_refresh_caught ==
  /\ variant = "discord"
  /\ background = "caught"
  /\ background' = "waiting"
  /\ UNCHANGED <<ready, refresh_task, manual>>
  /\ UNCHANGED <<botv, envv, cachev, timev, gc, buildv, handv>>

Owner == "owner"

Users == {Owner, "viewer"}

\* a check that lets every user through
AnyUser(u) == TRUE

\* @commands.is_owner()
is_owner(u) == u = Owner

\* the refresh command: the owner's starts a build and awaits it, anyone
\* else's fails its check and goes to on_command_error
refresh(u) ==
  /\ variant = "discord"
  /\ LoopFree
  /\ background # "unstarted"
  /\ IF is_owner(u)
     THEN /\ manual = "idle"
          /\ Submit("manual")
          /\ manual' = "await"
          /\ refresher' = u
          /\ denied' = denied
     ELSE /\ denied = "none"
          /\ denied' = u
          /\ UNCHANGED <<buildv, manual, refresher>>
  /\ UNCHANGED <<variant, cooldowns, cancelled, taskv>>
  /\ UNCHANGED <<ready, refresh_task, background>>
  /\ UNCHANGED <<envv, cachev, timev, gc, handv>>

\* the build has returned: the completion reply is sent
refresh_resume ==
  /\ variant = "discord"
  /\ LoopFree
  /\ manual = "await"
  /\ build["manual"].pc = "done"
  /\ build' = [build EXCEPT !["manual"] = NoBuild]
  /\ manual' = "idle"
  /\ refresher' = "none"
  /\ UNCHANGED <<variant, cooldowns, denied, cancelled, taskv>>
  /\ UNCHANGED <<nbuilds, nreturned, ready, refresh_task, background>>
  /\ UNCHANGED <<envv, cachev, timev, gc, handv>>

\* on_command_error: the failed check is logged, nothing is sent
on_command_error ==
  /\ variant = "discord"
  /\ LoopFree
  /\ denied # "none"
  /\ denied' = "none"
  /\ UNCHANGED <<variant, cooldowns, refresher, cancelled, taskv>>
  /\ UNCHANGED <<envv, cachev, timev, gc, buildv, corov, handv>>

\* ------------------------------------------------------------------------
\* thefuzz: process.extract with scorer fuzz.token_set_ratio
\* ------------------------------------------------------------------------
NonAlnum == {" ", "\n", "\r", "\t", ",", "_", "'"}

\* the characters of the model in code point order
Alphabet ==
  <<"\t", "\n", "\r", " ", "'", ",", "A", "B", "C", "H", "I", "N", "_",
    "a", "b", "c", "e", "h", "i", "m", "n", "s", "t">>

CharRank(c) == CHOOSE i \in 1..Len(Alphabet) : Alphabet[i] = c

\* utils.full_process: non-alphanumerics become blanks, lower case, stripped
full_process(s) ==
  strip(lower([i \in 1..Len(s) |-> IF s[i] \in NonAlnum THEN " " ELSE s[i]]))

\* str.split(): the maximal runs of non-blank characters
RECURSIVE Tokens(_, _)
Tokens(s, cur) ==
  IF s = <<>> THEN (IF cur = <<>> THEN {} ELSE {cur})
  ELSE IF IsSpace(Head(s))
       THEN (IF cur = <<>> THEN {} ELSE {cur}) \cup Tokens(Tail(s), <<>>)
       ELSE Tokens(Tail(s), Append(cur, Head(s)))

RECURSIVE StrLess(_, _)
StrLess(a, b) ==
  IF b = <<>> THEN FALSE
  ELSE IF a = <<>> THEN TRUE
  ELSE IF Head(a) = Head(b) THEN StrLess(Tail(a), Tail(b))
  ELSE CharRank(Head(a)) < CharRank(Head(b))

\* " ".join(sorted(tokens))
RECURSIVE SortedJoin(_)
SortedJoin(toks) ==
  IF toks = {} THEN <<>>
  ELSE LET least == CHOOSE t \in toks : \A u \in toks \ {t} : StrLess(t, u)
           rest == SortedJoin(toks \ {least})
       IN IF rest = <<>> THEN least ELSE least \o <<" ">> \o rest

RECURSIVE LCS(_, _)
LCS(a, b) ==
  IF a = <<>> \/ b = <<>> THEN 0
  ELSE IF Head(a) = Head(b) THEN 1 + LCS(Tail(a), Tail(b))
  ELSE LET x == LCS(Tail(a), b)
           y == LCS(a, Tail(b))
       IN IF x > y THEN x ELSE y

indel_distance(a, b) == Len(a) + Len(b) - 2 * LCS(a, b)

\* int(round(100 - 100 * dist / lensum)), halves rounded to the even integer
NormScore(dist, lensum) ==
  IF lensum = 0 THEN 100
  ELSE LET num == 100 * (lensum - dist)
           q == num \div lensum
           r == num % lensum
       IN IF 2 * r > lensum THEN q + 1
          ELSE IF 2 * r < lensum THEN q
          ELSE IF q % 2 = 0 THEN q ELSE q + 1

Max3(a, b, c) ==
  LET m == IF a > b THEN a ELSE b IN IF m > c THEN m ELSE c

token_set_ratio(s1, s2) ==
  LET p1 == full_process(s1)
      p2 == full_process(s2)
      tokens_a == Tokens(p1, <<>>)
      tokens_b == Tokens(p2, <<>>)
      intersect == tokens_a \cap tokens_b
      diff_ab == SortedJoin(tokens_a \ tokens_b)
      diff_ba == SortedJoin(tokens_b \ tokens_a)
      sect_len == Len(SortedJoin(intersect))
      gap == IF sect_len # 0 THEN 1 ELSE 0
      sect_ab_len == sect_len + gap + Len(diff_ab)
      sect_ba_len == sect_len + gap + Len(diff_ba)
      result == NormScore(indel_distance(diff_ab, diff_ba), sect_ab_len + sect_ba_len)
  IN IF tokens_a = {} \/ tokens_b = {} THEN 0
     ELSE IF intersect # {} /\ (tokens_a \subseteq tokens_b \/ tokens_b \subseteq tokens_a)
          THEN 100
     ELSE IF sect_len = 0 THEN result
     ELSE Max3(result,
               NormScore(gap + Len(diff_ab), sect_len + sect_ab_len),
               NormScore(gap + Len(diff_ba), sect_len + sect_ba_len))

\* the choices with their scores, best first, equal scores in choice order
RECURSIVE InsertScored(_, _)
InsertScored(sorted, m) ==
  IF sorted = <<>> THEN <<m>>
  ELSE IF Head(sorted).score >= m.score
       THEN <<Head(sorted)>> \o InsertScored(Tail(sorted), m)
       ELSE <<m>> \o sorted

RECURSIVE SortScored(_, _)
SortScored(choices, query) ==
  IF choices = <<>> THEN <<>>
  ELSE InsertScored(
         SortScored(SubSeq(choices, 1, Len(choices) - 1), query),
         [name |-> choices[Len(choices)],
          score |-> token_set_ratio(query, choices[Len(choices)])])

ExtractLimit == 5

MinScore == 75

\* an extraction that returns every choice, however many there are
extract_unlimited(query, choices) == SortScored(choices, query)

\* process.extract(search_term, choices, limit=5, scorer=fuzz.token_set_ratio)
extract(query, choices) ==
  LET all == SortScored(choices, query)
  IN SubSeq(all, 1, IF Len(all) < ExtractLimit THEN Len(all) ELSE ExtractLimit)

\* [m[0] for m in matches if m[1] > 75]
RECURSIVE Above(_)
Above(matches) ==
  IF matches = <<>> THEN <<>>
  ELSE (IF Head(matches).score > MinScore THEN <<Head(matches).name>> ELSE <<>>)
         \o Above(Tail(matches))

\* ------------------------------------------------------------------------
\* get_villagers (twitch): the villager files are read on every find
\* ------------------------------------------------------------------------
NameSeps == {",", "\n", "\r"}

\* re.split(r'[,\n\r]+', raw_content)
RECURSIVE re_split(_, _, _)
re_split(s, cur, in_sep) ==
  IF s = <<>> THEN <<cur>>
  ELSE IF Head(s) \in NameSeps
       THEN (IF in_sep THEN <<>> ELSE <<cur>>) \o re_split(Tail(s), <<>>, TRUE)
       ELSE re_split(Tail(s), Append(cur, Head(s)), FALSE)

MaxNameLen == 30

AddName(data, name, location_name) ==
  LET clean_name == strip(name)
  IN IF clean_name = <<>> THEN data
     ELSE IF Len(lower(clean_name)) > MaxNameLen THEN data
     ELSE AddLocation(data, lower(clean_name), location_name)

RECURSIVE AddNames(_, _, _)
AddNames(data, names_list, location_name) ==
  IF names_list = <<>> THEN data
  ELSE AddNames(AddName(data, Head(names_list), location_name),
                Tail(names_list), location_name)

\* the walk; a file that cannot be opened raises out of the loop and the
\* handler returns what was collected so far
RECURSIVE ScanDirs(_, _)
ScanDirs(data, walk) ==
  IF walk = <<>> THEN data
  ELSE LET d == Head(walk)
       IN IF ~d.has_file THEN ScanDirs(data, Tail(walk))
          ELSE IF ~d.readable THEN data
          ELSE ScanDirs(AddNames(data, re_split(d.content, <<>>, FALSE), d.name),
                        Tail(walk))

get_villagers(fs) == IF ~fs.exists THEN EmptyDict ELSE ScanDirs(EmptyDict, fs.walk)

\* ------------------------------------------------------------------------
\* status
\* ------------------------------------------------------------------------
DaySeconds == 86400

\* strftime("%H:%M:%S")
strftime(t) == t % DaySeconds

NoStatus ==
  [kind |-> "none", count |-> 0, time_str |-> 0, after_data |-> FALSE]

StatIdle == [pc |-> "idle", time_str |-> 0, result |-> NoStatus]

Started == variant = "discord" => background # "unstarted"

\* if self.last_update: ... else: "Database loading..."
status ==
  /\ LoopFree
  /\ Started
  /\ IF last_update # None_
     THEN stath' = [StatIdle EXCEPT !.pc = "time"]
     ELSE stath' = [StatIdle EXCEPT !.result =
                      [NoStatus EXCEPT !.kind = "loading", !.after_data = answered]]
  /\ UNCHANGED <<findh, answered>>
  /\ UNCHANGED <<botv, envv, cachev, timev, gc, buildv, corov>>

\* time_str = self.last_update.strftime("%H:%M:%S")
status_time ==
  /\ stath.pc = "time"
  /\ stath' = [stath EXCEPT !.pc = "count", !.time_str = strftime(last_update)]
  /\ UNCHANGED <<findh, answered>>
  /\ UNCHANGED <<botv, envv, cachev, timev, gc, buildv, corov>>

\* len(self.cache), and the reply is sent
status_count ==
  /\ stath.pc = "count"
  /\ stath' = [StatIdle EXCEPT !.result =
                 [kind |-> "data", count |-> Len(cache), time_str |-> stath.time_str,
                  after_data |-> answered]]
  /\ answered' = TRUE
  /\ findh' = findh
  /\ UNCHANGED <<botv, envv, cachev, timev, gc, buildv, corov>>

\* ------------------------------------------------------------------------
\* find
\* ------------------------------------------------------------------------
Items == { <<>>, <<"A", " ">>, <<"a", " ", "c">> }

NoAnswer ==
  [kind |-> "none", term |-> <<>>, value |-> <<>>, shown |-> <<>>, names |-> <<>>,
   keys |-> <<>>, ids |-> {}, stamped |-> FALSE, built |-> FALSE,
   after_data |-> FALSE]

FindIdle ==
  [pc |-> "idle", search_term |-> <<>>, item_hits |-> <<>>,
   villager_map |-> EmptyDict, ids |-> {}, result |-> NoAnswer]

FromData(kind) == kind \in {"hit", "suggest", "notfound"}

\* the reply is sent and the handler returns
Reply(kind, value, shown, names, keys, ids) ==
  /\ findh' = [FindIdle EXCEPT !.result =
                 [kind |-> kind, term |-> findh.search_term, value |-> value,
                  shown |-> shown, names |-> names, keys |-> keys, ids |-> ids,
                  stamped |-> last_update # None_,
                  built |-> (nreturned > 0 \/ installed # <<>>),
                  after_data |-> answered]]
  /\ answered' = (answered \/ FromData(kind))

\* all the orders in which a set can be listed
RECURSIVE SetOrders(_)
SetOrders(S) ==
  IF S = {} THEN {<<>>}
  ELSE UNION { { <<x>> \o o : o \in SetOrders(S \ {x}) } : x \in S }

UpperChar(c) ==
  CASE c = "a" -> "A" [] c = "b" -> "B" [] c = "c" -> "C" [] c = "e" -> "E"
    [] c = "h" -> "H" [] c = "i" -> "I" [] c = "m" -> "M" [] c = "n" -> "N"
    [] c = "s" -> "S" [] c = "t" -> "T" [] OTHER -> c

upper(s) == [i \in 1..Len(s) |-> UpperChar(s[i])]

\* sep.join(parts)
RECURSIVE Join(_, _)
Join(parts, sep) ==
  IF parts = <<>> THEN <<>>
  ELSE IF Len(parts) = 1 THEN Head(parts)
  ELSE Head(parts) \o sep \o Join(Tail(parts), sep)

BarSep == <<" ", "|", " ">>

NewLine == <<"\n">>

\* discord: raw_locations.upper().replace(', ', '\n')
EmbedLocations(raw_locations) == Join(split(upper(raw_locations), CommaSpace), NewLine)

\* The cooldown of one user: check_cooldown (twitch), the commands.cooldown
\* decorator (discord).  The entry is the clock reading of the last find
\* that passed; whether 3 seconds have gone by since then is open, the
\* clock of the model counting builds.
CooldownEntry == now + 1

OnCooldown == cooldowns # None_

\* the find is not handled: silently (twitch) or with the wait message
Dropped(kind) == [FindIdle EXCEPT !.result = [NoAnswer EXCEPT !.kind = kind]]

\* twitch: the usage hint, then check_cooldown, then the search term.
\* discord: the cooldown is charged before the body of the command runs.
find(item) ==
  /\ LoopFree
  /\ Started
  /\ LET usage == [FindIdle EXCEPT !.result = [NoAnswer EXCEPT !.kind = "usage"]]
         search == [FindIdle EXCEPT
                      !.pc = IF variant = "discord" THEN "check" ELSE "get",
                      !.search_term = strip(lower(item))]
     IN \/ /\ variant = "twitch"
           /\ item = <<>>
           /\ findh' = usage
           /\ cooldowns' = cooldowns
        \/ /\ variant = "twitch"
           /\ item # <<>>
           /\ OnCooldown
           /\ findh' = Dropped("ignored")
           /\ cooldowns' = cooldowns
        \/ /\ variant = "twitch"
           /\ item # <<>>
           /\ cooldowns' = CooldownEntry
           /\ findh' = search
        \/ /\ variant = "discord"
           /\ OnCooldown
           /\ findh' = Dropped("wait")
           /\ cooldowns' = cooldowns
        \/ /\ variant = "discord"
           /\ cooldowns' = CooldownEntry
           /\ findh' = IF item = <<>> THEN usage ELSE search
  /\ UNCHANGED <<variant, refresher, denied, cancelled, taskv>>
  /\ UNCHANGED <<stath, answered>>
  /\ UNCHANGED <<envv, cachev, timev, gc, buildv, corov>>

\* a check that records the time of every attempt
check_cooldown_restarts(table, user_id, t) ==
  [limited |-> HasKey(table, user_id) /\ t - Get(table, user_id) < 3,
   cooldowns |-> Put(table, user_id, t)]

\* check_cooldown(self, user_id, cooldown_sec=3) at time.time() = t: whether
\* the caller returns at once, and self.cooldowns afterwards
check_cooldown(table, user_id, t) ==
  IF HasKey(table, user_id) /\ t - Get(table, user_id) < 3
  THEN [limited |-> TRUE, cooldowns |-> table]
  ELSE [limited |-> FALSE, cooldowns |-> Put(table, user_id, t)]

\* str(ctx.author.id) of the chatters
Chatters == {"1", "2"}

\* twitch: find sent by chatter u, with self.cooldowns keyed by the chatter
find_from(u, item) ==
  /\ variant = "twitch"
  /\ LoopFree
  /\ IF item = <<>>
     THEN /\ findh' = [FindIdle EXCEPT !.result = [NoAnswer EXCEPT !.kind = "usage"]]
          /\ UNCHANGED <<cooldowns, finds>>
     ELSE /\ Len(finds) < MaxFinds
          /\ LET r == check_cooldown(cooldowns, u, now)
             IN /\ cooldowns' = r.cooldowns
                /\ finds' = Append(finds, [user |-> u, at |-> now, dropped |-> r.limited])
                /\ findh' = IF r.limited THEN Dropped("ignored")
                            ELSE [FindIdle EXCEPT !.pc = "get",
                                                  !.search_term = strip(lower(item))]
  /\ UNCHANGED <<variant, refresher, denied, cancelled, reconnect, created, ended>>
  /\ UNCHANGED <<stath, answered>>
  /\ UNCHANGED <<envv, cachev, timev, gc, buildv, corov>>

\* a second of time.time() passes
clock_tick ==
  /\ now < MaxTime
  /\ now' = now + 1
  /\ UNCHANGED <<last_update, stamps>>
  /\ UNCHANGED <<botv, envv, cachev, gc, buildv, corov, handv>>

\* discord: if not bot.cache: "Database is currently loading"
find_check ==
  /\ findh.pc = "check"
  /\ IF cache = EmptyDict
     THEN Reply("loading", <<>>, <<>>, <<>>, <<>>, {cache_id})
     ELSE /\ findh' = [findh EXCEPT !.pc = "member", !.ids = {cache_id}]
          /\ answered' = answered
  /\ stath' = stath
  /\ UNCHANGED <<botv, envv, cachev, timev, gc, buildv, corov>>

\* discord: if search_term in bot.cache
find_member ==
  /\ findh.pc = "member"
  /\ findh' = [findh EXCEPT
                 !.pc = IF HasKey(cache, findh.search_term) THEN "value" ELSE "keys",
                 !.ids = @ \cup {cache_id}]
  /\ UNCHANGED <<stath, answered>>
  /\ UNCHANGED <<botv, envv, cachev, timev, gc, buildv, corov>>

\* discord: raw_locations = bot.cache[search_term]; a KeyError goes to
\* on_command_error, which logs it
find_value ==
  /\ findh.pc = "value"
  /\ IF HasKey(cache, findh.search_term)
     THEN LET raw_locations == Get(cache, findh.search_term)
          IN Reply("hit", raw_locations, EmbedLocations(raw_locations), <<>>, <<>>,
                   findh.ids \cup {cache_id})
     ELSE Reply("error", <<>>, <<>>, <<>>, <<>>, findh.ids \cup {cache_id})
  /\ stath' = stath
  /\ UNCHANGED <<botv, envv, cachev, timev, gc, buildv, corov>>

\* twitch: item_hits = self.cache.get(search_term, "")
find_get ==
  /\ findh.pc = "get"
  /\ findh' = [findh EXCEPT !.pc = "villagers",
                            !.item_hits = GetOr(cache, findh.search_term),
                            !.ids = {cache_id}]
  /\ UNCHANGED <<stath, answered>>
  /\ UNCHANGED <<botv, envv, cachev, timev, gc, buildv, corov>>

\* ", ".join(found_locations) of the non-empty hits
JoinHits(item_hits, villager_hits) ==
  IF item_hits = <<>> THEN villager_hits
  ELSE IF villager_hits = <<>> THEN item_hits
  ELSE item_hits \o CommaSpace \o villager_hits

\* twitch: villager_map = self.get_villagers(), then the exact hit if any
find_villagers ==
  /\ findh.pc = "villagers"
  /\ LET villager_map == get_villagers(vfs)
         villager_hits == GetOr(villager_map, findh.search_term)
     IN IF findh.item_hits # <<>> \/ villager_hits # <<>>
        THEN LET all_locations == JoinHits(findh.item_hits, villager_hits)
             IN \E unique_locations \in SetOrders(Range(split(all_locations, CommaSpace))) :
                  Reply("hit", all_locations, upper(Join(unique_locations, BarSep)),
                        <<>>, <<>>, findh.ids)
        ELSE /\ findh' = [findh EXCEPT !.pc = "keys", !.villager_map = villager_map]
             /\ answered' = answered
  /\ stath' = stath
  /\ UNCHANGED <<botv, envv, cachev, timev, gc, buildv, corov>>

\* the keys are read, scored, and the suggestions or the not-found reply
\* is sent.  twitch passes the suggestions through set(), which loses the
\* order and the duplicates.
find_keys ==
  /\ findh.pc = "keys"
  /\ LET all_keys == IF variant = "discord" THEN Keys(cache)
                     ELSE Keys(cache) \o Keys(findh.villager_map)
         matches == extract(findh.search_term, all_keys)
         valid == Above(matches)
         ids == findh.ids \cup {cache_id}
     IN IF valid = <<>>
        THEN Reply("notfound", <<>>, <<>>, <<>>, all_keys, ids)
        ELSE \E names \in (IF variant = "discord" THEN {valid}
                           ELSE SetOrders(Range(valid))) :
               Reply("suggest", <<>>, <<>>, names, all_keys, ids)
  /\ stath' = stath
  /\ UNCHANGED <<botv, envv, cachev, timev, gc, buildv, corov>>

\* ------------------------------------------------------------------------
\* The bot: builds on worker threads, commands on the event loop, and the
\* owners of the workbook
\* ------------------------------------------------------------------------
\* the state after construction, for a workbook and a directory tree
Constructed(wbs, trees, entries) ==
  /\ variant \in {"twitch", "discord"}
  /\ cache = EmptyDict
  /\ cache_id = 0
  /\ last_update = None_
  /\ gc \in (IF variant = "twitch" THEN BOOLEAN ELSE {FALSE})
  /\ now = 0
  /\ workbook \in wbs
  /\ vfs \in (IF variant = "twitch" THEN trees ELSE {NoTree})
  /\ build = [p \in Triggers |-> NoBuild]
  /\ nbuilds = 0
  /\ nreturned = 0
  /\ installed = <<>>
  /\ stamps = <<>>
  /\ ready = "idle"
  /\ refresh_task = "none"
  /\ background = "unstarted"
  /\ manual = "idle"
  /\ stath = StatIdle
  /\ findh = FindIdle
  /\ answered = FALSE
  /\ cooldowns = entries
  /\ refresher = "none"
  /\ denied = "none"
  /\ cancelled = FALSE
  /\ reconnect = "idle"
  /\ created = 0
  /\ ended = 0
  /\ finds = <<>>

\* with the cooldown entry of the one chatter whose finds are followed
Construct(wbs, trees) == Constructed(wbs, trees, None_)

Init == Construct(LiveWorkbooks, LiveTrees)

\* the triggers, the builds and the edits
Lifecycle ==
  \/ event_ready
  \/ event_ready_resume
  \/ auto_refresh_cache
  \/ auto_refresh_cache_resume
  \/ setup_hook
  \/ background_cache_refresh
  \/ background_cache_refresh_resume
  \/ \E u \in Users : refresh(u)
  \/ refresh_resume
  \/ on_command_error
  \/ \E p \in Triggers : sync_update(p)
  \/ edit_workbook

Next ==
  \/ Lifecycle
  \/ \E item \in Items : find(item)
  \/ find_check
  \/ find_member
  \/ find_value
  \/ find_get
  \/ find_villagers
  \/ find_keys

Spec == Init /\ [][Next]_vars

\* the same bot with the status command in place of find: the two handlers
\* run on the event loop and neither writes what the other reads
NextStatus ==
  \/ Lifecycle
  \/ status
  \/ status_time
  \/ status_count

InitStatus == Construct(LiveWorkbooks, {NoTree})

SpecStatus == InitStatus /\ [][NextStatus]_vars

\* ------------------------------------------------------------------------
\* Builds one after the other: the Twitch bot and its ready events, within
\* the first refresh interval
\* ------------------------------------------------------------------------
InitBuild ==
  /\ Construct(Workbooks, {NoTree})
  /\ variant = "twitch"

NextBuild ==
  \/ event_ready
  \/ sync_update("ready")
  \/ event_ready_resume

SpecBuild == InitBuild /\ [][NextBuild]_vars

\* ------------------------------------------------------------------------
\* The find command of the Twitch bot over the villager files, before the
\* first build
\* ------------------------------------------------------------------------
InitScan ==
  /\ Construct({<<>>}, FileTrees)
  /\ variant = "twitch"
  /\ gc

NextScan ==
  \/ \E item \in Items : find(item)
  \/ find_get
  \/ find_villagers
  \/ find_keys

SpecScan == InitScan /\ [][NextScan]_vars

\* ------------------------------------------------------------------------
\* Properties of one build
\* ------------------------------------------------------------------------
AllFailed(reads) == reads # <<>> /\ \A i \in 1..Len(reads) : ~reads[i].ok

AllOk(reads) == \A i \in 1..Len(reads) : reads[i].ok

\* the normalized names in the cells of a worksheet, below its first row
RECURSIVE NamesInRow(_)
NamesInRow(row) ==
  IF row = <<>> THEN {}
  ELSE (IF strip(Head(row)) # <<>> THEN {lower(strip(Head(row)))} ELSE {})
         \cup NamesInRow(Tail(row))

NamesIn(rows) ==
  IF rows = <<>> THEN {} ELSE UNION { NamesInRow(rows[i]) : i \in 2..Len(rows) }

\* the titles of the worksheets read by a build in which the name occurs
SheetsWith(reads, key) ==
  { reads[i].title : i \in { j \in 1..Len(reads) :
                               reads[j].ok /\ key \in NamesIn(reads[j].rows) } }

\* C1: a refresh in which the workbook opens and the read of every worksheet
\* raises leaves the cache exactly as it was before the attempt.
C1_FailedRefreshKeepsCache ==
  [][\A p \in Triggers :
       (build[p].pc = "install" /\ AllFailed(build[p].reads)) => cache' = cache]_vars

\* C2: after a build the stored locations of a name are exactly the titles of
\* the worksheets it occurs in, each once, however often the name repeats in a
\* worksheet and whatever characters the titles contain.
C2_LocationsExactlyOnce ==
  \A i \in 1..Len(installed) :
    \A k \in KeySet(installed[i].table) :
      LET locs == split(Get(installed[i].table, k), CommaSpace)
          expected == SheetsWith(installed[i].reads, k)
      IN /\ Range(locs) = expected
         /\ Len(locs) = Cardinality(expected)

\* C10: two builds that read the same worksheets with the same rows, every
\* read succeeding, install equal tables (same keys in the same order, same
\* locations), so the second of them changes nothing a query reads.
C10_RebuildIdempotent ==
  \A i, j \in 1..Len(installed) :
    (/\ installed[i].reads = installed[j].reads
     /\ AllOk(installed[i].reads))
      => installed[i].table = installed[j].table

C10_Witness ==
  /\ Len(installed) = 2
  /\ installed[1].reads = installed[2].reads
  /\ AllOk(installed[1].reads)
  /\ Len(installed[2].reads) = 2
  /\ Len(installed[2].table) = 2
  /\ cache = installed[2].table
  /\ \E k \in KeySet(cache) : Len(split(Get(cache, k), CommaSpace)) > 2

\* ------------------------------------------------------------------------
\* Properties of the commands and the refresh lifecycle
\* ------------------------------------------------------------------------
Running == { p \in Triggers : build[p].pc \notin {"idle", "done"} }

TableOf(id) == installed[CHOOSE i \in 1..Len(installed) : installed[i].id = id].table

\* C3: all the reads of the index made by one find (the loading check, the
\* membership test, the location read, the candidate keys) are made on one
\* and the same snapshot: no find reads two different installed tables, and
\* none fails on a key that was present at its membership test.
C3_FindReadsOneSnapshot ==
  /\ Cardinality(findh.ids \ {0}) <= 1
  /\ Cardinality(findh.result.ids \ {0}) <= 1
  /\ findh.result.kind # "error"

\* C4: at most one call of _sync_update is executing at any time.
C4_OneBuildAtATime == Cardinality(Running) <= 1

\* C5: before the first build has installed a table or returned, no find is
\* answered with not-found or did-you-mean.
C5_LoadingUntilFirstBuild ==
  findh.result.kind \in {"suggest", "notfound"} => findh.result.built

\* C6: find answers with the loading reply only when status would, that is
\* when no build has set last_update; after a completed build that installed
\* an empty table it does not answer loading.
C6_LoadingOnlyBeforeBuild ==
  findh.result.kind = "loading" => ~findh.result.stamped

\* C7: the count and the time of one status reply belong to one build: the
\* count is the number of keys installed by the build that set the time.
C7_StatusCountMatchesTime ==
  stath.result.kind = "data"
    => \E t \in 1..Len(stamps) :
         /\ strftime(t) = stath.result.time_str
         /\ stath.result.count = Len(TableOf(stamps[t]))

\* C8: once a find or a status has been answered from data, no find and no
\* status is answered with the loading reply.
C8_NeverLoadingAgain ==
  /\ findh.result.kind = "loading" => ~findh.result.after_data
  /\ stath.result.kind = "loading" => ~stath.result.after_data

\* C9: every key of the installed cache and of the villager map of a scan
\* has a non-empty location value.
C9_NoKeyWithoutLocation ==
  /\ \A k \in KeySet(cache) : Get(cache, k) # <<>>
  /\ \A k \in KeySet(findh.villager_map) : Get(findh.villager_map, k) # <<>>

\* ------------------------------------------------------------------------
\* The find command over a catalogue with many similar names: one worksheet
\* whose title contains the separator, names shared with a villager file
\* ------------------------------------------------------------------------
SimilarNames ==
  << <<"a", " ", "c", "c">>, <<"a">>, <<"c">>, <<"c", " ", "a">>, <<"a", " ", "a">>,
     <<"c", " ", "c">>, <<"a">>, <<"b">> >>

FindWorkbooks ==
  { << [title |-> <<"A", ",", " ", "B">>, rows |-> <<Header, SimilarNames>>] >>,
    << [title |-> ExcludedTitle, rows |-> <<Header>>],
       [title |-> <<"A">>, rows |-> <<Header>> \o MixedRows] >> }

FindTrees ==
  { NoTree,
    [exists |-> TRUE,
     walk |-> <<[name |-> <<"A">>, has_file |-> TRUE, readable |-> TRUE,
                 content |-> <<"a", ",", "\n", " ", "C", "\n">>]>>] }

InitFind == Construct(FindWorkbooks, FindTrees)

NextFind ==
  \/ event_ready
  \/ event_ready_resume
  \/ setup_hook
  \/ background_cache_refresh
  \/ background_cache_refresh_resume
  \/ sync_update("ready")
  \/ sync_update("periodic")
  \/ \E item \in Items : find(item)
  \/ find_check
  \/ find_member
  \/ find_value
  \/ find_get
  \/ find_villagers
  \/ find_keys

SpecFind == InitFind /\ [][NextFind]_vars

\* ------------------------------------------------------------------------
\* Properties of the answers of find
\* ------------------------------------------------------------------------
NoDuplicates(seq) == \A i, j \in 1..Len(seq) : seq[i] = seq[j] => i = j

\* what the build that installed snapshot id had read
ReadsOf(id) ==
  IF id = 0 THEN <<>>
  ELSE installed[CHOOSE i \in 1..Len(installed) : installed[i].id = id].reads

\* the normalized names listed in one Villagers.txt
NamesOfFile(content) ==
  KeySet(AddNames(EmptyDict, re_split(content, <<>>, FALSE), <<"A">>))

\* the names of the directories whose Villagers.txt lists the name
DirsWith(fs, key) ==
  { fs.walk[i].name :
      i \in { j \in 1..Len(fs.walk) :
                /\ fs.walk[j].has_file
                /\ fs.walk[j].readable
                /\ key \in NamesOfFile(fs.walk[j].content) } }

AllReadable(fs) == \A i \in 1..Len(fs.walk) : fs.walk[i].readable

\* C11: the locations displayed on an exact hit are the worksheets and the
\* villager directories that list the name, in upper case, none of them twice.
C11_ExactHitLocations ==
  (/\ findh.result.kind = "hit"
   /\ Cardinality(findh.result.ids) = 1
   /\ AllReadable(vfs))
    => LET id == CHOOSE i \in findh.result.ids : TRUE
           key == findh.result.term
           locs == SheetsWith(ReadsOf(id), key)
                     \cup (IF variant = "twitch" THEN DirsWith(vfs, key) ELSE {})
           pieces == split(findh.result.shown,
                           IF variant = "twitch" THEN BarSep ELSE NewLine)
       IN /\ NoDuplicates(pieces)
          /\ Range(pieces) = { upper(l) : l \in locs }

\* C12: the suggestions of find are candidate keys that score strictly above
\* 75, at most 5 of them, none twice, and find answers not-found only when no
\* candidate key scores above 75.
C12_SuggestionsAboveThreshold ==
  LET r == findh.result
  IN /\ r.kind = "suggest"
          => /\ r.names # <<>>
             /\ Len(r.names) <= 5
             /\ NoDuplicates(r.names)
             /\ \A i \in 1..Len(r.names) :
                   /\ r.names[i] \in Range(r.keys)
                   /\ token_set_ratio(r.term, r.names[i]) > 75
     /\ r.kind = "notfound"
          => \A k \in Range(r.keys) : token_set_ratio(r.term, k) <= 75

\* more than five keys score above 75, some key is listed by the worksheet and
\* by a villager file, some key scores below: five distinct names are sent
C12_Witness ==
  LET r == findh.result
  IN /\ r.kind = "suggest"
     /\ Len(r.names) = 5
     /\ ~NoDuplicates(r.keys)
     /\ Cardinality({ k \in Range(r.keys) : token_set_ratio(r.term, k) > 75 }) > 5
     /\ \E k \in Range(r.keys) : token_set_ratio(r.term, k) <= 75

\* the position at which the scorer first sees a candidate
FirstIndex(keys, name) ==
  CHOOSE i \in 1..Len(keys) : keys[i] = name /\ \A j \in 1..(i - 1) : keys[j] # name

\* C13: the suggestions are sent in the order of descending score, names of
\* equal score in the order in which the candidates were given to the scorer.
C13_SuggestionsOrdered ==
  LET r == findh.result
  IN r.kind = "suggest"
       => \A i, j \in 1..Len(r.names) :
            i < j =>
              LET si == token_set_ratio(r.term, r.names[i])
                  sj == token_set_ratio(r.term, r.names[j])
              IN \/ si > sj
                 \/ /\ si = sj
                    /\ FirstIndex(r.keys, r.names[i]) <= FirstIndex(r.keys, r.names[j])

\* C14: a find with empty text is answered with the usage hint only: it reads
\* no snapshot and leaves cache, last_update and the cooldown entry as they
\* were.
C14_EmptyFindChangesNothing ==
  [][(findh'.result.kind = "usage" /\ findh.pc = "idle" /\ findh'.pc = "idle"
        /\ <<findh, cooldowns>>' # <<findh, cooldowns>>)
       => /\ findh'.result = [NoAnswer EXCEPT !.kind = "usage"]
          /\ cache' = cache
          /\ last_update' = last_update
          /\ cooldowns' = cooldowns]_vars

\* ------------------------------------------------------------------------
\* The Discord bot, its refresh loop and the refresh command
\* ------------------------------------------------------------------------
InitRefresh ==
  /\ Construct(LiveWorkbooks, {NoTree})
  /\ variant = "discord"

NextRefresh ==
  \/ setup_hook
  \/ background_cache_refresh
  \/ background_cache_refresh_resume
  \/ \E u \in Users : refresh(u)
  \/ refresh_resume
  \/ on_command_error
  \/ sync_update("periodic")
  \/ sync_update("manual")
  \/ edit_workbook

SpecRefresh == InitRefresh /\ [][NextRefresh]_vars

FailedTitles(reads) == { reads[i].title : i \in { j \in 1..Len(reads) : ~reads[j].ok } }

\* the table of a build that reads, in order, the worksheets not in skipped
RECURSIVE TableWithout(_, _, _)
TableWithout(temp_cache, wb, skipped) ==
  IF wb = <<>> THEN temp_cache
  ELSE TableWithout(
         IF Head(wb).title \in skipped THEN temp_cache
         ELSE ScanSheet(temp_cache, Head(wb).title, Head(wb).rows),
         Tail(wb), skipped)

\* C16: a worksheet whose read raises is skipped and the build goes on: the
\* installed table has every name of every other worksheet that is not
\* excluded, and is the table of a build of those worksheets alone.
C16_FailedSheetSkipped ==
  \A i \in 1..Len(installed) :
    LET failed == FailedTitles(installed[i].reads)
    IN /\ \A n \in 1..Len(workbook) :
            (workbook[n].title \notin failed \cup {ExcludedTitle})
              => \A k \in NamesIn(workbook[n].rows) :
                    /\ HasKey(installed[i].table, k)
                    /\ Get(installed[i].table, k) # <<>>
       /\ installed[i].table
            = TableWithout(EmptyDict, workbook, failed \cup {ExcludedTitle})

\* the read of the first worksheet failed, the second was read and its names
\* are installed; and the other way round
C16_Witness ==
  /\ Len(installed) = 2
  /\ Len(installed[1].reads) = 2
  /\ ~installed[1].reads[1].ok
  /\ installed[1].reads[2].ok
  /\ Len(installed[1].table) = 2
  /\ installed[2].reads[1].ok
  /\ ~installed[2].reads[2].ok
  /\ cache = installed[2].table
  /\ Len(cache) = 2

\* C17: a directory whose Villagers.txt cannot be read is skipped and the
\* scan goes on: the map of the scan has the names of every directory whose
\* Villagers.txt can be read.
C17_UnreadableDirSkipped ==
  findh.pc = "keys"
    => \A i \in 1..Len(vfs.walk) :
         (vfs.walk[i].has_file /\ vfs.walk[i].readable)
           => \A k \in NamesOfFile(vfs.walk[i].content) :
                 HasKey(findh.villager_map, k)

\* C18: a build that fails as a whole (the client cannot be created, the
\* workbook cannot be opened or its worksheets listed) returns with cache and
\* last_update as they were, and the cache changes only where a build
\* installs its table.
C18_FailedBuildKeepsSnapshot ==
  [][/\ \A p \in Triggers :
          (build[p].pc \in {"gc", "open"} /\ build'[p].pc = "done")
            => /\ cache' = cache
               /\ cache_id' = cache_id
               /\ last_update' = last_update
     /\ (cache' # cache \/ last_update' # last_update)
          => \E p \in Triggers : build[p].pc \in {"install", "stamp"}]_vars

\* a second build has failed as a whole after a first one installed entries
C18_Witness ==
  /\ Len(installed) = 1
  /\ Len(stamps) = 1
  /\ nbuilds = 2
  /\ nreturned = 2
  /\ build["ready"].pc = "done"
  /\ cache = installed[1].table
  /\ cache # EmptyDict
  /\ last_update = 1

\* ------------------------------------------------------------------------
\* The Twitch bot, its periodic task and the cancellation of that task
\* ------------------------------------------------------------------------
InitCancel ==
  /\ Construct(LiveWorkbooks, {NoTree})
  /\ variant = "twitch"

NextCancel ==
  \/ event_ready
  \/ event_ready_resume
  \/ auto_refresh_cache
  \/ auto_refresh_cache_resume
  \/ cancel_refresh_task
  \/ executor_discard
  \/ sync_update("ready")
  \/ sync_update("periodic")
  \/ edit_workbook

SpecCancel == InitCancel /\ [][NextCancel]_vars

\* C19: the periodic task, cancelled while it sleeps or while it awaits a
\* build, is done without an exception, and starts no build from then on.
C19_CancelStopsRefreshTask ==
  [][/\ cancelled' => refresh_task' = "finished"
     /\ (cancelled /\ cancelled')
          => ~(build["periodic"].pc = "idle" /\ build'["periodic"].pc # "idle")]_vars

\* the task was cancelled while it awaited a build, and that build runs on
C19_Witness ==
  /\ cancelled
  /\ refresh_task = "finished"
  /\ build["periodic"].pc \in {"loop", "install", "stamp"}
  /\ cache # EmptyDict

\* the table that was self.cache when its identity was id
SnapshotOf(id) == IF id = 0 THEN EmptyDict ELSE TableOf(id)

\* the answer that the steps of find give for a search term when they read
\* nothing but the table
AnswerFrom(table, term) ==
  IF variant = "discord" /\ table = EmptyDict
  THEN [kind |-> "loading", value |-> <<>>, names |-> {}]
  ELSE IF GetOr(table, term) # <<>>
       THEN [kind |-> "hit", value |-> Get(table, term), names |-> {}]
       ELSE LET valid == Above(extract(term, Keys(table)))
            IN IF valid = <<>>
               THEN [kind |-> "notfound", value |-> <<>>, names |-> {}]
               ELSE [kind |-> "suggest", value |-> <<>>, names |-> Range(valid)]

\* C20: the answer of a find is determined by its search term and the
\* snapshot it read: it is the answer computed from these two alone, whatever
\* the spreadsheet and the villager files hold when the find runs.
C20_AnswerFromSnapshotOnly ==
  LET r == findh.result
  IN (r.kind \in {"loading", "hit", "suggest", "notfound"} /\ Cardinality(r.ids) = 1)
       => LET expected == AnswerFrom(SnapshotOf(CHOOSE i \in r.ids : TRUE), r.term)
          IN /\ r.kind = expected.kind
             /\ r.value = expected.value
             /\ Range(r.names) = expected.names

\* ------------------------------------------------------------------------
\* Properties of the keys of a build
\* ------------------------------------------------------------------------
\* the names below the first row of the worksheets that are not excluded
NamesOfWorkbook(wb) ==
  UNION { NamesIn(wb[n].rows) :
            n \in { m \in 1..Len(wb) : wb[m].title # ExcludedTitle } }

\* C21: after a build that read every worksheet, the keys of the cache are
\* exactly the trimmed, lower-cased, non-empty cell texts below the first row
\* of the worksheets that are not excluded, each key once, and the excluded
\* worksheet is no location of any key.
C21_KeysAreNormalizedCells ==
  \A i \in 1..Len(installed) :
    AllOk(installed[i].reads)
      => /\ KeySet(installed[i].table) = NamesOfWorkbook(workbook)
         /\ NoDuplicates(Keys(installed[i].table))
         /\ \A k \in KeySet(installed[i].table) :
               /\ k = lower(strip(k))
               /\ k # <<>>
               /\ ExcludedTitle \notin Range(split(Get(installed[i].table, k), CommaSpace))

\* an excluded worksheet with names and a worksheet whose cells differ in
\* case and blanks or are empty: two keys are installed
C21_Witness ==
  /\ Len(workbook) = 2
  /\ workbook[1].title = ExcludedTitle
  /\ workbook[1].rows = <<Header>> \o MixedRows
  /\ workbook[2].rows = <<Header>> \o MixedRows
  /\ Len(installed) = 1
  /\ AllOk(installed[1].reads)
  /\ cache = installed[1].table
  /\ KeySet(cache) = { <<"a">>, <<"b">> }

\* the keys of the index a find reads: the snapshot and, for the Twitch bot,
\* the map of the villager files
IndexKeys(id) ==
  KeySet(SnapshotOf(id))
    \cup (IF variant = "twitch" THEN KeySet(get_villagers(vfs)) ELSE {})

\* C22: a find that read one snapshot answers with an exact hit exactly when
\* its search term is a key of the index, an exact hit carries no
\* suggestions, and suggestions are sent only for a term that is no key.
C22_ExactHitIffKey ==
  LET r == findh.result
  IN (r.kind \in {"loading", "hit", "suggest", "notfound"} /\ Cardinality(r.ids) = 1)
       => LET keys == IndexKeys(CHOOSE i \in r.ids : TRUE)
          IN /\ r.kind = "hit" <=> r.term \in keys
             /\ r.kind = "hit" => r.names = <<>>
             /\ r.kind = "suggest" => r.term \notin keys

\* ------------------------------------------------------------------------
\* The periodic refresh of both bots after start-up, with builds that fail.
\* The timers fire, the event loop resumes what is ready and the executor
\* threads run: weak fairness of these steps.  The edits are not fair.
\* ------------------------------------------------------------------------
InitLoop == Construct(LiveWorkbooks, {NoTree})

\* the ready event of the start-up
first_event_ready == refresh_task = "none" /\ event_ready

LoopCycle ==
  \/ auto_refresh_cache
  \/ update_cache_raises
  \/ background_cache_refresh
  \/ background_cache_refresh_raises

NextLoop ==
  \/ first_event_ready
  \/ event_ready_resume
  \/ auto_refresh_cache
  \/ auto_refresh_cache_resume
  \/ update_cache_raises
  \/ update_cache_caught
  \/ setup_hook
  \/ background_cache_refresh
  \/ background_cache_refresh_resume
  \/ background_cache_refresh_raises
  \/ background_cache_refresh_caught
  \/ sync_update("ready")
  \/ sync_update("periodic")
  \/ edit_workbook

SpecLoop ==
  /\ InitLoop
  /\ [][NextLoop]_vars
  /\ WF_vars(first_event_ready)
  /\ WF_vars(event_ready_resume)
  /\ WF_vars(setup_hook)
  /\ WF_vars(LoopCycle)
  /\ WF_vars(auto_refresh_cache_resume)
  /\ WF_vars(update_cache_caught)
  /\ WF_vars(background_cache_refresh_resume)
  /\ WF_vars(background_cache_refresh_caught)
  /\ WF_vars(sync_update("ready"))
  /\ WF_vars(sync_update("periodic"))

\* the periodic loop waits for its next cycle
LoopSleeping == refresh_task = "sleeping" \/ background = "waiting"

\* the periodic loop is inside a cycle
InCycle == refresh_task \in {"await", "caught"} \/ background \in {"await", "caught"}

\* C23: whatever happens in a cycle of the periodic refresh (the executor
\* call raises, the build fails as a whole or in a worksheet), the loop comes
\* back to its sleep, a later cycle is started, and a periodic build that
\* gets past its reads installs its table.
C23_FailedRefreshKeepsScheduler ==
  /\ InCycle ~> LoopSleeping
  /\ LoopSleeping ~> InCycle
  /\ \A n \in 1..MaxBuilds :
        (build["periodic"].pc = "install" /\ build["periodic"].id = n)
          ~> (cache_id = n \/ \E i \in 1..Len(installed) : installed[i].id = n)

\* after a periodic build whose read failed, a later periodic build has
\* installed entries and the loop sleeps again
C23_Witness ==
  /\ Len(installed) = 2
  /\ ~AllOk(installed[1].reads)
  /\ AllOk(installed[2].reads)
  /\ installed[2].table # EmptyDict
  /\ cache = installed[2].table
  /\ build["periodic"] = NoBuild
  /\ LoopSleeping

\* ------------------------------------------------------------------------
\* Builds that may be abandoned between two worksheets, with find and status
\* running while the worker thread merges
\* ------------------------------------------------------------------------
\* two worksheets that list the same names, the second one possibly the
\* excluded one
PartialWorkbooks ==
  { w \in Workbooks :
      /\ Len(w) = 2
      /\ w[1].title = <<"A">>
      /\ w[2].title \in {<<"B">>, ExcludedTitle}
      /\ \A i \in 1..2 : w[i].rows = <<Header>> \o MixedRows }

InitPartial == Construct(PartialWorkbooks, {NoTree})

NextPartial ==
  \/ first_event_ready
  \/ event_ready_resume
  \/ auto_refresh_cache
  \/ auto_refresh_cache_resume
  \/ setup_hook
  \/ background_cache_refresh
  \/ background_cache_refresh_resume
  \/ sync_update("ready")
  \/ sync_update("periodic")
  \/ sync_update_abandoned("ready")
  \/ sync_update_abandoned("periodic")
  \/ find(<<"A", " ">>)
  \/ find_check
  \/ find_member
  \/ find_value
  \/ find_get
  \/ find_villagers
  \/ find_keys
  \/ status
  \/ status_time
  \/ status_count

SpecPartial == InitPartial /\ [][NextPartial]_vars

\* the loop of the build has gone over every worksheet it listed
LoopFinished(b) ==
  /\ b.pc = "install"
  /\ b.idx = Len(b.sheets) + 1
  /\ Len(b.reads) = Cardinality({ i \in 1..Len(b.sheets) : b.sheets[i] # ExcludedTitle })

\* C24: the cache is assigned only the table of a build whose loop has gone
\* over every worksheet; a build that is abandoned inside the loop leaves the
\* cache as it was; what find and status read is the empty initial table or
\* a table installed that way.
C24_OnlyFinishedTablesInstalled ==
  /\ [][(cache' # cache \/ cache_id' # cache_id \/ installed' # installed)
          => \E p \in Triggers :
               /\ LoopFinished(build[p])
               /\ cache' = build[p].temp_cache
               /\ cache_id' = build[p].id
               /\ installed' = Append(installed,
                                 [id |-> build[p].id, table |-> cache',
                                  reads |-> build[p].reads])]_vars
  /\ [](/\ cache = SnapshotOf(cache_id)
        /\ \A id \in findh.ids \cup findh.result.ids :
              id = 0 \/ \E i \in 1..Len(installed) : installed[i].id = id
        /\ findh.result.kind = "hit"
              => \E id \in findh.result.ids :
                    /\ HasKey(SnapshotOf(id), findh.result.term)
                    /\ Get(SnapshotOf(id), findh.result.term) = findh.result.value
        /\ stath.result.kind = "data"
              => \E i \in 1..Len(installed) :
                    stath.result.count = Len(installed[i].table))

\* a find is between two of its reads of the installed table while a build
\* has merged one of two worksheets into a table that differs from it
C24_Witness ==
  /\ findh.pc \notin {"idle", "check"}
  /\ cache # EmptyDict
  /\ \E p \in Triggers :
       /\ build[p].pc = "loop"
       /\ build[p].idx = 2
       /\ Len(build[p].sheets) = 2
       /\ build[p].temp_cache # EmptyDict
       /\ build[p].temp_cache # cache

\* ------------------------------------------------------------------------
\* Twitch: ready events that repeat and overlap, the periodic task, its
\* cancellation
\* ------------------------------------------------------------------------
InitReady ==
  /\ Construct(LiveWorkbooks, {NoTree})
  /\ variant = "twitch"

NextReady ==
  \/ event_ready
  \/ event_ready_resume
  \/ event_ready_reconnect
  \/ event_ready_reconnect_resume
  \/ auto_refresh_cache
  \/ auto_refresh_cache_resume
  \/ cancel_refresh_task
  \/ executor_discard
  \/ sync_update("ready")
  \/ sync_update("reconnect")
  \/ sync_update("periodic")

SpecReady == InitReady /\ [][NextReady]_vars

\* the auto_refresh_cache tasks that were created and have not returned
AliveTasks == created - ended

\* C25: at most one auto_refresh_cache task is alive, it is the one that
\* self._refresh_task refers to, and a task is created only when
\* self._refresh_task is None or refers to a task that is done.
C25_OneRefreshTask ==
  /\ [](AliveTasks <= 1)
  /\ [](AliveTasks = IF refresh_task \in {"sleeping", "await"} THEN 1 ELSE 0)
  /\ [][created' # created
          => /\ refresh_task \in {"none", "finished"}
             /\ refresh_task' = "sleeping"
             /\ created' = created + 1]_vars

\* the first task was cancelled and has returned, a later ready event has
\* created the second one
C25_Witness ==
  /\ created = 2
  /\ ended = 1
  /\ refresh_task = "sleeping"
  /\ ready = "idle"

\* ------------------------------------------------------------------------
\* Twitch: the finds of two chatters on a clock of seconds, self.cooldowns
\* as the dict it is
\* ------------------------------------------------------------------------
InitCooldown ==
  /\ Constructed({<<>>}, {NoTree}, EmptyDict)
  /\ variant = "twitch"
  /\ gc

NextCooldown ==
  \/ \E u \in Chatters : \E item \in {<<>>, <<"a">>} : find_from(u, item)
  \/ find_get
  \/ find_villagers
  \/ find_keys
  \/ clock_tick

SpecCooldown == InitCooldown /\ [][NextCooldown]_vars

\* the finds before the i-th that its chatter sent and that were handled
HandledBefore(i) ==
  { j \in 1..(i - 1) : finds[j].user = finds[i].user /\ ~finds[j].dropped }

Latest(S) == CHOOSE j \in S : \A k \in S : k <= j

\* C26: a non-empty find of a chatter is dropped exactly when the chatter's
\* latest handled find is less than 3 seconds old; dropped finds and the
\* finds of other chatters do not count.
C26_DroppedWithinThreeSeconds ==
  \A i \in 1..Len(finds) :
    finds[i].dropped
      <=> /\ HandledBefore(i) # {}
          /\ finds[i].at - finds[Latest(HandledBefore(i))].at < 3

\* chatter 1 is handled at second 0, dropped at second 2 and handled again at
\* second 3, chatter 2 is handled at second 1
C26_Witness ==
  /\ finds = << [user |-> "1", at |-> 0, dropped |-> FALSE],
                [user |-> "2", at |-> 1, dropped |-> FALSE],
                [user |-> "1", at |-> 2, dropped |-> TRUE],
                [user |-> "1", at |-> 3, dropped |-> FALSE] >>
  /\ findh.pc = "idle"
  /\ findh.result.kind = "notfound"

====
